---- MODULE Spec2Model ----
(***************************************************************************)
(* The family-graph engine of src/app.py: the persisted family document    *)
(* (family/family.json), the handlers that rewrite it (add_member,         *)
(* edit_member, admin_delete_member, admin_merge_duplicates,               *)
(* admin_sync_siblings) and the synchronizer passes they call.             *)
(*                                                                         *)
(* A person is a record; the document is the sequence of persons in file   *)
(* order.  The edge lists are sequences of ids, as in the JSON document.   *)
(* Text is modelled over a small vocabulary of words; a relationship text  *)
(* is the sequence of its comma-separated entries.                         *)
(***************************************************************************)
EXTENDS Integers, Sequences, FiniteSets, TLC

VARIABLES
    store,    \* the persisted document: the list in family/family.json
    exists,   \* whether family/family.json has been written yet
    last,     \* the last request handled: what it was and how it ended
    issued,   \* history: every id ever given to a record
    typed,    \* history: whether a siblings text has ever been submitted
    pending,  \* per worker: the request it is handling and the document it loaded
    nops      \* the number of requests handled so far

vars == <<store, exists, last, issued, typed, pending, nops>>

----------------------------------------------------------------------------
(* Bounds of the model *)

\* ids are minted only up to MaxId; numeric entries range over 1..MaxId
MaxId == 3
\* the number of comma-separated entries one request submits, over all fields
MaxEntries == 1
\* the number of requests in a run
MaxOps == 3
\* the number of records of a graph handed to a synchronizer pass, and the
\* number of passes run on it
GraphSize == 3
MaxPasses == 2
\* creations on their own: requests and entries per request
MaxCreates == 2
MaxNames == 2
\* add_member and edit_member with MaxNames entries: requests
MaxEdits == 2
\* the read views on their own: records of a graph
RelSize == 4
MaxQueries == 1
DupSize == 4
\* the merge of records with photos and biographies: records
PhotoSize == 3
\* requests served at the same time: workers and requests
NWorkers == 2
MaxRaceOps == 3
\* the merge taken step by step: requests
MaxBackupOps == 3

IdRange == 1..MaxId

----------------------------------------------------------------------------
(* Text *)

None == "<None>"
PlaceholderBio == "Auto-added placeholder. Update this member's info."

\* str.lower() on the vocabulary
Lower(s) ==
    CASE s = "Al" -> "al"
      [] s = "Al " -> "al "
      [] s = "Ng" -> "ng"
      [] s = "Unknown" -> "unknown"
      [] OTHER -> s

\* str.strip() on the vocabulary
Strip(s) ==
    CASE s = "Al " -> "Al"
      [] s = "al " -> "al"
      [] OTHER -> s

\* the order of Python's str comparison on the lower-cased vocabulary
StrRank(s) ==
    CASE s = "" -> 0
      [] s = "[1]" -> 1
      [] s = "al" -> 2
      [] s = "cy" -> 3
      [] s = "ng" -> 4
      [] s = "unknown" -> 5
      [] s = "x" -> 6

\* f"{m['first_name'].strip()} {m['last_name'].strip()}".lower() == entry.lower()
\* an entry is the sequence of its words; a name field holds one word or none
NameMatches(m, words) ==
    /\ m.first_name # ""
    /\ m.last_name # ""
    /\ Len(words) = 2
    /\ Lower(words[1]) = Lower(m.first_name)
    /\ Lower(words[2]) = Lower(m.last_name)

----------------------------------------------------------------------------
(* Lists *)

Range(s) == {s[i] : i \in DOMAIN s}

Contains(s, x) == \E i \in DOMAIN s : s[i] = x

\* [i for i in s if P(i)]
RECURSIVE Filter(_, _)
Filter(s, keep) ==
    IF s = <<>> THEN <<>>
    ELSE IF Head(s) \in keep THEN <<Head(s)>> \o Filter(Tail(s), keep)
         ELSE Filter(Tail(s), keep)

\* for x in src: if x not in dst: dst.append(x)
RECURSIVE AppendMissing(_, _)
AppendMissing(dst, src) ==
    IF src = <<>> THEN dst
    ELSE AppendMissing(IF Contains(dst, Head(src)) THEN dst
                       ELSE Append(dst, Head(src)), Tail(src))

Min(S) == CHOOSE x \in S : \A y \in S : x <= y
Max0(S) == IF S = {} THEN 0 ELSE CHOOSE x \in S : \A y \in S : y <= x

\* sorted(S) for a set of ids
RECURSIVE SortedSeq(_)
SortedSeq(S) ==
    IF S = {} THEN <<>> ELSE <<Min(S)>> \o SortedSeq(S \ {Min(S)})

----------------------------------------------------------------------------
(* The family list *)

Ids(fam) == {fam[i].id : i \in DOMAIN fam}

\* {m["id"]: m for m in family}: the index of the record an id maps to
\* (the last one, were an id to occur twice)
IdxOf(fam, id) ==
    CHOOSE i \in DOMAIN fam :
        /\ fam[i].id = id
        /\ \A j \in DOMAIN fam : fam[j].id = id => j <= i

\* max([m["id"] for m in family], default=0) + 1
NextId(fam) == Max0(Ids(fam)) + 1

KeyLess(a, b) ==
    \/ StrRank(Lower(a.first_name)) < StrRank(Lower(b.first_name))
    \/ /\ StrRank(Lower(a.first_name)) = StrRank(Lower(b.first_name))
       /\ StrRank(Lower(a.last_name)) < StrRank(Lower(b.last_name))

\* insert m after every record whose key is not greater (stable)
RECURSIVE InsertSorted(_, _)
InsertSorted(s, m) ==
    IF s = <<>> THEN <<m>>
    ELSE IF KeyLess(m, Head(s)) THEN <<m>> \o s
         ELSE <<Head(s)>> \o InsertSorted(Tail(s), m)

\* sorted(family, key=lambda m: (first_name.lower(), last_name.lower()))
RECURSIVE SortFamily(_)
SortFamily(fam) ==
    IF fam = <<>> THEN <<>>
    ELSE InsertSorted(SortFamily(SubSeq(fam, 1, Len(fam) - 1)), fam[Len(fam)])

----------------------------------------------------------------------------
(* sync_siblings_in_family *)

\* the adjacency sets after the "explicit siblings" and "shared parents" loops
AdjacencySharedParents(fam) ==
    [i \in Ids(fam) |->
        {j \in Ids(fam) \ {i} :
            \E k, l \in DOMAIN fam :
                /\ fam[k].id = i
                /\ fam[l].id = j
                /\ Range(fam[k].parents) \cap Range(fam[l].parents) # {}}]
AdjacencyExplicit(fam) ==
    [i \in Ids(fam) |->
        LET mi == fam[IdxOf(fam, i)]
        IN  {s \in Range(mi.siblings) : s \in Ids(fam) /\ s # i}
            \cup {j \in Ids(fam) \ {i} : Contains(fam[IdxOf(fam, j)].siblings, i)}]
Adjacency(fam) ==
    [i \in Ids(fam) |->
        LET mi == fam[IdxOf(fam, i)]
        IN  {s \in Range(mi.siblings) : s \in Ids(fam) /\ s # i}
            \cup {j \in Ids(fam) \ {i} : Contains(fam[IdxOf(fam, j)].siblings, i)}
            \cup {j \in Ids(fam) \ {i} :
                    \E k, l \in DOMAIN fam :
                        /\ fam[k].id = i
                        /\ fam[l].id = j
                        /\ Range(fam[k].parents) \cap Range(fam[l].parents) # {}}]

\* the while-stack loop: everything reached from the start through members
\* not visited by an earlier traversal
RECURSIVE Traverse(_, _, _)
Traverse(adj, comp, visited) ==
    LET more == (UNION {adj[c] : c \in comp}) \ (visited \cup comp)
    IN  IF more = {} THEN comp ELSE Traverse(adj, comp \cup more, visited)

\* the loop over adjacency.keys(): the component each id ends up in
RECURSIVE Components(_, _, _, _, _)
Components(fam, adj, k, visited, compOf) ==
    IF k > Len(fam) THEN compOf
    ELSE IF fam[k].id \in visited
         THEN Components(fam, adj, k + 1, visited, compOf)
         ELSE LET comp == Traverse(adj, {fam[k].id}, visited)
              IN  Components(fam, adj, k + 1, visited \cup comp,
                             [i \in DOMAIN compOf |->
                                 IF i \in comp THEN comp ELSE compOf[i]])

\* id_to_member[mid]["siblings"] = sorted(component - {mid})
NewSiblingsAdditive(old, comp, mid) == old \o SortedSeq(comp \ {mid})
NewSiblings(old, comp, mid) == SortedSeq(comp \ {mid})

sync_siblings_in_family(fam) ==
    LET adj    == Adjacency(fam)
        compOf == Components(fam, adj, 1, {}, [i \in Ids(fam) |-> {}])
    IN  [k \in DOMAIN fam |->
            IF k = IdxOf(fam, fam[k].id)
            THEN [fam[k] EXCEPT !.siblings =
                      NewSiblings(fam[k].siblings, compOf[fam[k].id], fam[k].id)]
            ELSE fam[k]]

----------------------------------------------------------------------------
(* sync_spouses_in_family *)

\* what is done with one spouse id of member k
SpouseStepNoPrune(fam, k, sid) ==
    IF sid \in Ids(fam) /\ sid # fam[k].id
    THEN LET o == IdxOf(fam, sid)
         IN  IF Contains(fam[o].spouse, fam[k].id) THEN fam
             ELSE [fam EXCEPT ![o].spouse = Append(@, fam[k].id)]
    ELSE fam
SpouseStepNoMirror(fam, k, sid) ==
    IF sid \in Ids(fam) /\ sid # fam[k].id
    THEN fam
    ELSE [fam EXCEPT ![k].spouse = Filter(@, Ids(fam) \ {fam[k].id})]
SpouseStep(fam, k, sid) ==
    IF sid \in Ids(fam) /\ sid # fam[k].id
    THEN LET o == IdxOf(fam, sid)
         IN  IF Contains(fam[o].spouse, fam[k].id) THEN fam
             ELSE [fam EXCEPT ![o].spouse = Append(@, fam[k].id)]
    ELSE [fam EXCEPT ![k].spouse = Filter(@, Ids(fam) \ {fam[k].id})]

\* for sid in list(m.get("spouse", [])): the copy is taken when m's turn comes
RECURSIVE SpouseInner(_, _, _)
SpouseInner(fam, k, snap) ==
    IF snap = <<>> THEN fam
    ELSE SpouseInner(SpouseStep(fam, k, Head(snap)), k, Tail(snap))

RECURSIVE SpouseOuter(_, _)
SpouseOuter(fam, k) ==
    IF k > Len(fam) THEN fam
    ELSE SpouseOuter(SpouseInner(fam, k, fam[k].spouse), k + 1)

SyncSpousesSkipped(fam) == fam
sync_spouses_in_family(fam) == SpouseOuter(fam, 1)

----------------------------------------------------------------------------
(* "Propagate children to spouses": the loop of add_member and edit_member *)

\* one spouse id of member k: children go both ways
PropagatePairLinkParents(fam, k, sid) ==
    IF sid \in Ids(fam)
    THEN LET o  == IdxOf(fam, sid)
             f1 == [fam EXCEPT ![o].children = AppendMissing(@, fam[k].children)]
             f2 == [f1 EXCEPT ![k].children = AppendMissing(@, f1[o].children)]
         IN  [j \in DOMAIN f2 |->
                 IF f2[j].id \in Range(f2[k].children)
                 THEN [f2[j] EXCEPT !.parents = AppendMissing(@, <<f2[k].id, sid>>)]
                 ELSE f2[j]]
    ELSE fam
PropagatePairOneWay(fam, k, sid) ==
    IF sid \in Ids(fam)
    THEN LET o == IdxOf(fam, sid)
         IN  [fam EXCEPT ![o].children = AppendMissing(@, fam[k].children)]
    ELSE fam
PropagatePair(fam, k, sid) ==
    IF sid \in Ids(fam)
    THEN LET o  == IdxOf(fam, sid)
             f1 == [fam EXCEPT ![o].children = AppendMissing(@, fam[k].children)]
         IN  [f1 EXCEPT ![k].children = AppendMissing(@, f1[o].children)]
    ELSE fam

RECURSIVE PropagateInner(_, _, _)
PropagateInner(fam, k, j) ==
    IF j > Len(fam[k].spouse) THEN fam
    ELSE PropagateInner(PropagatePair(fam, k, fam[k].spouse[j]), k, j + 1)

RECURSIVE PropagateOuter(_, _)
PropagateOuter(fam, k) ==
    IF k > Len(fam) THEN fam
    ELSE PropagateOuter(PropagateInner(fam, k, 1), k + 1)

PropagateChildren(fam) == PropagateOuter(fam, 1)

----------------------------------------------------------------------------
(* Identifier resolution: add_member.resolve_to_ids and                     *)
(* edit_member.resolve_to_ids_auto                                          *)

\* An entry of a relationship text, after strip():
\*   "num"  a run of digits, n its value
\*   "brk"  text ending in "[n]", here "x [1]"
\*   "name" other text, w its words ("" has no words)
NumEntry(n)  == [t |-> "num", n |-> n, w |-> <<>>]
BrkEntry(n)  == [t |-> "brk", n |-> n, w |-> <<"x", "[1]">>]
NameEntry(w) == [t |-> "name", n |-> 0, w |-> w]

Kinds == {"parents", "children", "siblings", "spouse"}

\* the placeholder record of both resolvers
PlaceholderUnlinked(id, words, rel, this) ==
    [id         |-> id,
     first_name |-> IF Len(words) > 0 THEN words[1] ELSE "Unknown",
     last_name  |-> IF Len(words) > 1 THEN words[Len(words)] ELSE "Unknown",
     birth_date |-> "",
     gender     |-> "unknown",
     photo      |-> None,
     bio        |-> PlaceholderBio,
     parents    |-> <<>>,
     children   |-> <<>>,
     spouse     |-> <<>>,
     siblings   |-> <<>>]
Placeholder(id, words, rel, this) ==
    [id         |-> id,
     first_name |-> IF Len(words) > 0 THEN words[1] ELSE "Unknown",
     last_name  |-> IF Len(words) > 1 THEN words[Len(words)] ELSE "Unknown",
     birth_date |-> "",
     gender     |-> "unknown",
     photo      |-> None,
     bio        |-> PlaceholderBio,
     parents    |-> IF rel = "children" THEN <<this>> ELSE <<>>,
     children   |-> IF rel = "parents" THEN <<this>> ELSE <<>>,
     spouse     |-> IF rel = "spouse" THEN <<this>> ELSE <<>>,
     siblings   |-> IF rel = "siblings" THEN <<this>> ELSE <<>>]

\* the first record whose full name is the entry, 0 when there is none
FirstMatch(fam, words) ==
    IF \E i \in DOMAIN fam : NameMatches(fam[i], words)
    THEN Min({i \in DOMAIN fam : NameMatches(fam[i], words)})
    ELSE 0

\* the "for entry in val.split(',')" loop; brackets tells the two resolvers
\* apart: only resolve_to_ids_auto reads "Name [7]" as the id 7
RECURSIVE ResolveLoop(_, _, _, _, _, _, _)
ResolveLoop(val, fam, next_id, rel, this, brackets, result) ==
    IF val = <<>> THEN [ids |-> result, fam |-> fam, next |-> next_id]
    ELSE
      LET e == Head(val)
          words == e.w
      IN
      IF e.t = "num" \/ (e.t = "brk" /\ brackets)
      THEN ResolveLoop(Tail(val), fam, next_id, rel, this, brackets,
                       Append(result, e.n))
      ELSE IF FirstMatch(fam, words) # 0
      THEN ResolveLoop(Tail(val), fam, next_id, rel, this, brackets,
                       Append(result, fam[FirstMatch(fam, words)].id))
      ELSE IF words # <<>>
      THEN ResolveLoop(Tail(val),
                       Append(fam, Placeholder(next_id, words, rel, this)),
                       next_id + 1, rel, this, brackets,
                       Append(result, next_id))
      ELSE ResolveLoop(Tail(val), fam, next_id, rel, this, brackets, result)

resolve_to_ids(val, fam, next_id, rel, this) ==
    ResolveLoop(val, fam, next_id, rel, this, FALSE, <<>>)

\* the reciprocal field of a relationship kind
Reciprocal(rel) ==
    CASE rel = "parents" -> "children"
      [] rel = "children" -> "parents"
      [] rel = "spouse" -> "spouse"
      [] rel = "siblings" -> "siblings"

\* m.setdefault(field, []).append(this) unless it is there
AddEdge(m, field, this) ==
    IF Contains(m[field], this) THEN m
    ELSE [m EXCEPT ![field] = Append(@, this)]

\* "Add reciprocal links for existing members": for eid in result, for m in family
RECURSIVE LinkBack(_, _, _, _)
LinkBack(fam, ids, rel, this) ==
    IF ids = <<>> THEN fam
    ELSE LinkBack([k \in DOMAIN fam |->
                      IF fam[k].id = Head(ids)
                      THEN AddEdge(fam[k], Reciprocal(rel), this)
                      ELSE fam[k]],
                  Tail(ids), rel, this)

resolve_to_ids_auto(val, fam, next_id, rel, this) ==
    LET r == ResolveLoop(val, fam, next_id, rel, this, TRUE, <<>>)
    IN  [r EXCEPT !.fam = LinkBack(r.fam, r.ids, rel, this)]

----------------------------------------------------------------------------
(* What a handler leaves behind: the document, whether the file exists, the *)
(* response, the id it was about, the ids it gave to new records, what it   *)
(* appended to the activity log and the backup copies it wrote              *)

Result(doc, ex, outcome, id, minted, log, backup) ==
    [doc |-> doc, exists |-> ex, outcome |-> outcome, id |-> id,
     minted |-> minted, log |-> log, backup |-> backup]

----------------------------------------------------------------------------
(* add_member (POST) *)

\* "Ensure sibling and spouse lists are symmetric": the loop over family
AdHocSiblings(fam, new_id, siblings) ==
    [k \in DOMAIN fam |->
        IF fam[k].id # new_id /\ fam[k].id \in Range(siblings)
        THEN [fam[k] EXCEPT !.siblings =
                 SortedSeq(Range(@) \cup {new_id}
                           \cup (Range(siblings) \ {fam[k].id}))]
        ELSE fam[k]]

\* the id given to the new member
NewIdStale(fam) == Max0(Ids(fam))
NewId(fam) == NextId(fam)

\* the POST branch of add_member
add_member(fam0, form, text) ==
    LET new_id == NewId(fam0)
        rp == resolve_to_ids(text["parents"], fam0, new_id + 1, "parents", new_id)
        rc == resolve_to_ids(text["children"], rp.fam, rp.next, "children", new_id)
        rs == resolve_to_ids(text["siblings"], rc.fam, rc.next, "siblings", new_id)
        ru == resolve_to_ids(text["spouse"], rs.fam, rs.next, "spouse", new_id)
        member == [id         |-> new_id,
                   first_name |-> form.first_name,
                   last_name  |-> form.last_name,
                   birth_date |-> form.birth_date,
                   gender     |-> form.gender,
                   photo      |-> form.photo,
                   bio        |-> form.bio,
                   parents    |-> rp.ids,
                   children   |-> rc.ids,
                   spouse     |-> ru.ids,
                   siblings   |-> rs.ids]
        f1 == Append(ru.fam, member)
        f2 == PropagateChildren(f1)
        f3 == AdHocSiblings(f2, new_id, rs.ids)
        f4 == sync_spouses_in_family(f3)
    IN  Result(SortFamily(f4), TRUE, "ok", new_id, new_id .. (ru.next - 1), <<>>, <<>>)

----------------------------------------------------------------------------
(* edit_member (POST) *)

\* family[i][...] = ... for the first record with the id
UpdateMember(fam, member_id, form, parents, children, siblings, spouse) ==
    LET i == Min({k \in DOMAIN fam : fam[k].id = member_id})
    IN  [fam EXCEPT ![i] =
            [@ EXCEPT !.first_name = form.first_name,
                      !.last_name  = form.last_name,
                      !.birth_date = form.birth_date,
                      !.gender     = form.gender,
                      !.bio        = form.bio,
                      !.photo      = IF form.photo # None THEN form.photo ELSE @,
                      !.parents    = parents,
                      !.children   = children,
                      !.siblings   = siblings,
                      !.spouse     = spouse]]

\* "Auto-add and resolve relationships": the four lists edit_member resolves,
\* in the order parents, children, siblings, spouse, each on the family the
\* one before left
ResolveAll(fam0, member_id, text) ==
    LET next0 == NextId(fam0)
        rp == resolve_to_ids_auto(text["parents"], fam0, next0, "parents", member_id)
        rc == resolve_to_ids_auto(text["children"], rp.fam, rp.next, "children", member_id)
        rs == resolve_to_ids_auto(text["siblings"], rc.fam, rc.next, "siblings", member_id)
        ru == resolve_to_ids_auto(text["spouse"], rs.fam, rs.next, "spouse", member_id)
    IN  [parents |-> rp.ids, children |-> rc.ids, siblings |-> rs.ids,
         spouse |-> ru.ids, fam |-> ru.fam, next |-> ru.next]

\* edit_member: 404 unless a record has the id, else the POST branch
edit_member(ex, fam0, member_id, form, text) ==
    IF member_id \notin Ids(fam0)
    THEN Result(fam0, ex, "not_found", member_id, {}, <<>>, <<>>)
    ELSE
    LET next0 == NextId(fam0)
        rp == resolve_to_ids_auto(text["parents"], fam0, next0, "parents", member_id)
        rc == resolve_to_ids_auto(text["children"], rp.fam, rp.next, "children", member_id)
        rs == resolve_to_ids_auto(text["siblings"], rc.fam, rc.next, "siblings", member_id)
        ru == resolve_to_ids_auto(text["spouse"], rs.fam, rs.next, "spouse", member_id)
        f1 == UpdateMember(ru.fam, member_id, form, rp.ids, rc.ids, rs.ids, ru.ids)
        f2 == PropagateChildren(f1)
        f3 == sync_siblings_in_family(f2)
        f4 == sync_spouses_in_family(f3)
    IN  Result(SortFamily(f4), TRUE, "ok", member_id, next0 .. (ru.next - 1), <<>>, <<>>)

----------------------------------------------------------------------------
(* admin_delete_member *)

\* if not session.get("is_admin"): return "Access denied"
DeniedNever(is_admin) == FALSE
Denied(is_admin) == ~is_admin

\* no family file, or no record with the id: redirect, nothing done
DeleteTargetAssumed(ex, fam0, member_id) == FALSE
DeleteTargetMissing(ex, fam0, member_id) == ~ex \/ member_id \notin Ids(fam0)

\* "Remove references from other members"
StripIdFromParents(m, id) ==
    [m EXCEPT !.parents  = Filter(@, Range(@) \ {id}),
              !.siblings = Filter(@, Range(@) \ {id})]
StripId(m, id) ==
    [m EXCEPT !.parents  = Filter(@, Range(@) \ {id}),
              !.children = Filter(@, Range(@) \ {id}),
              !.siblings = Filter(@, Range(@) \ {id}),
              !.spouse   = Filter(@, Range(@) \ {id})]

\* [m for m in family if keep(m)]
RECURSIVE KeepMembers(_, _)
KeepMembers(fam, keepIds) ==
    IF fam = <<>> THEN <<>>
    ELSE IF Head(fam).id \in keepIds
         THEN <<Head(fam)>> \o KeepMembers(Tail(fam), keepIds)
         ELSE KeepMembers(Tail(fam), keepIds)

admin_delete_member(ex, fam0, is_admin, member_id) ==
    IF Denied(is_admin) THEN Result(fam0, ex, "denied", member_id, {}, <<>>, <<>>)
    ELSE IF DeleteTargetMissing(ex, fam0, member_id)
    THEN Result(fam0, ex, "noop", member_id, {}, <<>>, <<>>)
    ELSE
    LET f1 == KeepMembers(fam0, Ids(fam0) \ {member_id})
        f2 == [k \in DOMAIN f1 |-> StripId(f1[k], member_id)]
    IN  Result(sync_siblings_in_family(f2), TRUE, "ok", member_id, {},
               <<"DELETE_MEMBER">>, <<>>)

----------------------------------------------------------------------------
(* admin_merge_duplicates (POST) *)

\* list(set(xs)): CPython lists a set of small non-negative ints in
\* ascending order
ListOfSet(S) == SortedSeq(S)

\* the "for dup in duplicates" loop, for one duplicate
MergeOneOverwrite(primary, dup, primary_id) ==
    [primary EXCEPT
        !.parents  = AppendMissing(@, dup.parents),
        !.children = AppendMissing(@, dup.children),
        !.spouse   = AppendMissing(@, dup.spouse),
        !.siblings = AppendMissing(@, Filter(dup.siblings, Range(dup.siblings) \ {primary_id})),
        !.photo    = IF dup.photo # None /\ dup.photo # "" THEN dup.photo ELSE @,
        !.bio      = IF dup.bio # "" THEN dup.bio ELSE @]
MergeOneNoSpouse(primary, dup, primary_id) ==
    [primary EXCEPT
        !.parents  = AppendMissing(@, dup.parents),
        !.children = AppendMissing(@, dup.children),
        !.siblings = AppendMissing(@, Filter(dup.siblings, Range(dup.siblings) \ {primary_id})),
        !.photo    = IF (@ = None \/ @ = "") /\ dup.photo # None /\ dup.photo # ""
                     THEN dup.photo ELSE @,
        !.bio      = IF @ = "" /\ dup.bio # "" THEN dup.bio ELSE @]
MergeOne(primary, dup, primary_id) ==
    [primary EXCEPT
        !.parents  = AppendMissing(@, dup.parents),
        !.children = AppendMissing(@, dup.children),
        !.spouse   = AppendMissing(@, dup.spouse),
        !.siblings = AppendMissing(@, Filter(dup.siblings, Range(dup.siblings) \ {primary_id})),
        !.photo    = IF (@ = None \/ @ = "") /\ dup.photo # None /\ dup.photo # ""
                     THEN dup.photo ELSE @,
        !.bio      = IF @ = "" /\ dup.bio # "" THEN dup.bio ELSE @]

RECURSIVE MergeInto(_, _, _)
MergeInto(primary, dups, primary_id) ==
    IF dups = <<>> THEN primary
    ELSE MergeInto(MergeOne(primary, Head(dups), primary_id), Tail(dups), primary_id)

\* [primary_id if x in duplicate_ids else x for x in xs], then list(set(...))
RedirectKeepRepeats(xs, primary_id, duplicate_ids) ==
    [i \in DOMAIN xs |-> IF xs[i] \in duplicate_ids THEN primary_id ELSE xs[i]]
Redirect(xs, primary_id, duplicate_ids) ==
    ListOfSet({IF x \in duplicate_ids THEN primary_id ELSE x : x \in Range(xs)})

\* "Update all references in other family members to point to primary"
RewriteOtherKeep(m, primary_id, duplicate_ids) == m
RewriteOther(m, primary_id, duplicate_ids) ==
    [m EXCEPT !.parents  = Redirect(@, primary_id, duplicate_ids),
              !.children = Redirect(@, primary_id, duplicate_ids),
              !.spouse   = Redirect(@, primary_id, duplicate_ids),
              !.siblings = Redirect(@, primary_id, duplicate_ids)]

\* "Clean up primary's own relationships"
CleanPrimary(m, valid_ids, primary_id) ==
    [m EXCEPT !.parents  = Filter(@, valid_ids \ {primary_id}),
              !.children = Filter(@, valid_ids \ {primary_id}),
              !.spouse   = Filter(@, valid_ids \ {primary_id}),
              !.siblings = Filter(@, valid_ids \ {primary_id})]

\* the last record with the id, as the "Find members" loop leaves it
PrimaryIdx(fam, primary_id) ==
    Max0({k \in DOMAIN fam : fam[k].id = primary_id})

\* the form checks of the POST branch: confirm is set and the primary is one
\* of the duplicates
MergeAcceptedUnlisted(confirm, primary_id, duplicate_ids) == confirm
MergeAccepted(confirm, primary_id, duplicate_ids) ==
    confirm /\ primary_id \in duplicate_ids

admin_merge_duplicates(ex, fam0, is_admin, confirm, primary_id, duplicate_ids) ==
    IF Denied(is_admin) THEN Result(fam0, ex, "denied", primary_id, {}, <<>>, <<>>)
    ELSE IF ~ex THEN Result(fam0, ex, "not_found", primary_id, {}, <<>>, <<>>)
    ELSE IF ~MergeAccepted(confirm, primary_id, duplicate_ids)
    THEN Result(fam0, ex, "bad_request", primary_id, {}, <<>>, <<>>)
    ELSE IF primary_id \notin Ids(fam0)
    THEN \* shutil.copy has run before the primary is looked up
         Result(fam0, ex, "not_found", primary_id, {}, <<>>, <<fam0>>)
    ELSE
    LET p     == PrimaryIdx(fam0, primary_id)
        dups  == KeepMembers(fam0, duplicate_ids \ {primary_id})
        prim  == MergeInto(fam0[p], dups, primary_id)
        keep  == (Ids(fam0) \ duplicate_ids) \cup {primary_id}
        f1    == [k \in DOMAIN fam0 |->
                    IF k = p THEN CleanPrimary(prim, keep, primary_id)
                    ELSE IF fam0[k].id = primary_id \/ fam0[k].id \in duplicate_ids
                         THEN fam0[k]
                         ELSE RewriteOther(fam0[k], primary_id, duplicate_ids)]
    IN  Result(KeepMembers(f1, keep), TRUE, "ok", primary_id, {},
               <<"MERGE_DUPLICATES">>, <<fam0>>)

----------------------------------------------------------------------------
(* admin_sync_siblings *)

admin_sync_siblings(ex, fam0, is_admin) ==
    IF Denied(is_admin) THEN Result(fam0, ex, "denied", 0, {}, <<>>, <<>>)
    ELSE IF ~ex THEN Result(fam0, ex, "not_found", 0, {}, <<>>, <<>>)
    ELSE Result(sync_spouses_in_family(sync_siblings_in_family(fam0)), TRUE, "ok",
                0, {}, <<"SYNC_SIBLINGS">>, <<>>)

----------------------------------------------------------------------------
(* Requests *)

\* the submitted form fields (request.form, request.files["photo"])
Forms ==
    [first_name : {"Al"}, last_name : {"Ng"}, birth_date : {"1950-01-01"},
     gender : {"f"}, photo : {None}, bio : {""}]

\* the entries a relationship text is made of
NameTexts == {<<"al", "ng">>, <<"cy">>}
Entries ==
    {NumEntry(n) : n \in IdRange} \cup {NameEntry(w) : w \in NameTexts}
        \cup {BrkEntry(1)}

\* the submitted relationship texts: up to n entries over the four fields,
\* given as the sequence of (field, entry) in the order typed
RECURSIVE PairSeqs(_, _)
PairSeqs(n, entries) ==
    IF n = 0 THEN {<<>>}
    ELSE LET shorter == PairSeqs(n - 1, entries)
         IN  shorter \cup
             {Append(s, <<k, e>>) : s \in {t \in shorter : Len(t) = n - 1},
                                    k \in Kinds, e \in entries}

Submitted == PairSeqs(MaxEntries, Entries)

RECURSIVE FieldText(_, _)
FieldText(pairs, kind) ==
    IF pairs = <<>> THEN <<>>
    ELSE IF Head(pairs)[1] = kind
         THEN <<Head(pairs)[2]>> \o FieldText(Tail(pairs), kind)
         ELSE FieldText(Tail(pairs), kind)

\* request.form.get(kind, "") for the four kinds
TextOf(pairs) == [k \in Kinds |-> FieldText(pairs, k)]

\* what a request carries besides the form: session["is_admin"] as the
\* handler reads it (FALSE where the handler does not read it), the confirm
\* field, the duplicate ids and the relationship texts
NoText == [k \in Kinds |-> <<>>]
Inputs(admin, confirm, dups, text) ==
    [admin |-> admin, confirm |-> confirm, dups |-> dups, text |-> text]

\* the record of a handled request, with the document it loaded; of a merge
\* that did not go through, only whether the primary was among the
\* duplicates is kept
Req(op, r, req) ==
    [op |-> op, outcome |-> r.outcome,
     id |-> IF r.outcome = "ok" \/ op \in {"delete", "update"} THEN r.id ELSE 0,
     dups |-> IF r.outcome = "ok" THEN req.dups ELSE {},
     admin |-> req.admin, confirm |-> req.confirm,
     listed |-> op = "merge" /\ r.id \in req.dups,
     text |-> req.text,
     minted |-> r.minted, log |-> r.log, backup |-> r.backup, loaded |-> store,
     found |-> exists]

\* the workers of the server; a worker that handles no request
Workers == 1..NWorkers
Idle == [op |-> "idle"]
NoPending == [w \in Workers |-> Idle]

----------------------------------------------------------------------------
(* The state machine: one request at a time, each a whole read-modify-write *)

Init ==
    /\ store = <<>>
    /\ exists = FALSE
    /\ last = [op |-> "init", outcome |-> "ok", id |-> 0, dups |-> {},
               admin |-> FALSE, confirm |-> FALSE, listed |-> FALSE,
               text |-> NoText,
               minted |-> {}, log |-> <<>>, backup |-> <<>>, loaded |-> <<>>,
               found |-> FALSE]
    /\ issued = {}
    /\ typed = FALSE
    /\ pending = NoPending
    /\ nops = 0

\* what a request with result r leaves behind
Effect(op, r, req) ==
    /\ store' = r.doc
    /\ exists' = r.exists
    /\ last' = Req(op, r, req)
    /\ issued' = issued \cup r.minted
    /\ typed' = (typed \/ req.text["siblings"] # <<>>)
    /\ nops' = nops + 1
    /\ UNCHANGED pending

\* a request handled with result r
Handled(op, r, req) ==
    /\ nops < MaxOps
    /\ Max0(r.minted) <= MaxId
    /\ Effect(op, r, req)

\* POST /add_member
AddMember(forms, submitted) ==
    \E form \in forms, pairs \in submitted :
        Handled("create", add_member(store, form, TextOf(pairs)),
                Inputs(FALSE, FALSE, {}, TextOf(pairs)))

\* POST /edit_member/<member_id>
EditMember(forms, submitted) ==
    \E member_id \in IdRange, form \in forms, pairs \in submitted :
        Handled("update", edit_member(exists, store, member_id, form, TextOf(pairs)),
                Inputs(FALSE, FALSE, {}, TextOf(pairs)))

\* POST /admin/delete_member/<member_id>
DeleteMember ==
    \E is_admin \in BOOLEAN, member_id \in IdRange :
        Handled("delete", admin_delete_member(exists, store, is_admin, member_id),
                Inputs(is_admin, FALSE, {}, NoText))

\* POST /admin/merge-duplicates
MergeDuplicates ==
    \E is_admin, confirm \in BOOLEAN, primary_id \in IdRange,
       duplicate_ids \in SUBSET IdRange :
        Handled("merge",
                admin_merge_duplicates(exists, store, is_admin, confirm,
                                       primary_id, duplicate_ids),
                Inputs(is_admin, confirm, duplicate_ids, NoText))

\* GET /admin/sync-siblings
SyncSiblings ==
    \E is_admin \in BOOLEAN :
        Handled("sync", admin_sync_siblings(exists, store, is_admin),
                Inputs(is_admin, FALSE, {}, NoText))

Next ==
    \/ AddMember(Forms, Submitted)
    \/ EditMember(Forms, Submitted)
    \/ DeleteMember
    \/ MergeDuplicates
    \/ SyncSiblings

Spec == Init /\ [][Next]_vars

----------------------------------------------------------------------------
(* The synchronizer passes on their own: any graph of GraphSize records,    *)
(* whose lists may name the record itself and an id no record has           *)

GraphIds == 1..GraphSize
RefIds == 1..(GraphSize + 1)
ShortLists == {<<>>} \cup {<<a>> : a \in RefIds}
PairLists == ShortLists \cup {<<a, b>> : a, b \in RefIds}

GraphPerson(id, parents, spouse, siblings) ==
    [id |-> id, first_name |-> "Al", last_name |-> "Ng",
     birth_date |-> "1950-01-01", gender |-> "f", photo |-> None, bio |-> "",
     parents |-> parents, children |-> <<>>, spouse |-> spouse,
     siblings |-> siblings]

\* the records in ascending or in descending order of id
Orders == {[k \in GraphIds |-> k], [k \in GraphIds |-> GraphSize + 1 - k]}

SpouseGraphs ==
    {[k \in GraphIds |-> GraphPerson(o[k], <<>>, sp[o[k]], <<>>)] :
        o \in Orders, sp \in [GraphIds -> PairLists]}

SiblingGraphs ==
    {[k \in GraphIds |-> GraphPerson(o[k], pa[o[k]], <<>>, sb[o[k]])] :
        o \in Orders, pa \in [GraphIds -> ShortLists], sb \in [GraphIds -> ShortLists]}

InitSync ==
    /\ store \in SpouseGraphs \cup SiblingGraphs
    /\ exists = TRUE
    /\ last = [op |-> "init", outcome |-> "ok", id |-> 0, dups |-> {},
               minted |-> {}, log |-> <<>>, backup |-> <<>>, loaded |-> <<>>]
    /\ issued = {}
    /\ typed = FALSE
    /\ pending = NoPending
    /\ nops = 0

\* a pass run on the graph; last.id counts how many times in a row it has run
Pass(op, doc) ==
    /\ nops < MaxPasses
    /\ store' = doc
    /\ last' = [op |-> op, outcome |-> "ok",
                id |-> IF last.op = op THEN last.id + 1 ELSE 1, dups |-> {},
                minted |-> {}, log |-> <<>>, backup |-> <<>>, loaded |-> store]
    /\ nops' = nops + 1
    /\ UNCHANGED <<exists, issued, typed, pending>>

SiblingPass == Pass("sync_siblings", sync_siblings_in_family(store))

SpousePass == Pass("sync_spouses", sync_spouses_in_family(store))

NextSync ==
    \/ SiblingPass
    \/ SpousePass

SpecSync == InitSync /\ [][NextSync]_vars

----------------------------------------------------------------------------
(* The three passes that normalise edges, on graphs with sibling and parent *)
(* lists, with spouse lists, or with spouse and children lists              *)

ChildGraphs ==
    {[k \in GraphIds |->
         [GraphPerson(o[k], <<>>, sp[o[k]], <<>>) EXCEPT !.children = ch[o[k]]]] :
        o \in Orders, sp \in [GraphIds -> ShortLists], ch \in [GraphIds -> ShortLists]}

InitPasses ==
    /\ store \in SiblingGraphs \cup ChildGraphs
    /\ exists = TRUE
    /\ last = [op |-> "init", outcome |-> "ok", id |-> 0, dups |-> {},
               minted |-> {}, log |-> <<>>, backup |-> <<>>, loaded |-> <<>>]
    /\ issued = {}
    /\ typed = FALSE
    /\ pending = NoPending
    /\ nops = 0

\* "Propagate children to spouses"
PropagatePass == Pass("propagate", PropagateChildren(store))

NextPasses ==
    \/ SiblingPass
    \/ SpousePass
    \/ PropagatePass

SpecPasses == InitPasses /\ [][NextPasses]_vars

----------------------------------------------------------------------------
(* add_member on its own, with up to MaxNames entries in a request: digits, *)
(* a name a record may have, a one-word name, "x [1]" and a blank entry     *)

CreateEntries ==
    {NumEntry(1), NameEntry(<<"al", "ng">>), NameEntry(<<"cy">>), BrkEntry(1),
     NameEntry(<<>>)}

CreateMember ==
    /\ nops < MaxCreates
    /\ \E form \in Forms, pairs \in PairSeqs(MaxNames, CreateEntries) :
          Effect("create", add_member(store, form, TextOf(pairs)),
                 Inputs(FALSE, FALSE, {}, TextOf(pairs)))

NextCreate == CreateMember

SpecCreate == Init /\ [][NextCreate]_vars

----------------------------------------------------------------------------
(* add_member and edit_member with up to MaxNames entries in the request of *)
(* the update                                                               *)

CreateOne ==
    /\ nops < MaxEdits
    /\ \E form \in Forms, pairs \in Submitted :
          Effect("create", add_member(store, form, TextOf(pairs)),
                 Inputs(FALSE, FALSE, {}, TextOf(pairs)))

EditTwo ==
    /\ nops < MaxEdits
    /\ \E member_id \in IdRange, form \in Forms, pairs \in PairSeqs(MaxNames, Entries) :
          Effect("update", edit_member(exists, store, member_id, form, TextOf(pairs)),
                 Inputs(FALSE, FALSE, {}, TextOf(pairs)))

NextEdit ==
    \/ CreateOne
    \/ EditTwo

SpecEdit == Init /\ [][NextEdit]_vars

----------------------------------------------------------------------------
(* get_relationship *)

\* id_to_member = {m['id']: m for m in family}: the last record with the id
IdToMember(fam, id) == fam[Max0({k \in DOMAIN fam : fam[k].id = id})]

\* the f-string of a label: its fixed words and the first names in it
Label(words, names) == [words |-> words, names |-> names]

\* set(m1.get('parents', [])) & set(m2.get('parents', []))
SharedParentBySiblings(m1, m2) == Contains(m1.siblings, m2.id)
SharedParent(m1, m2) == Range(m1.parents) \cap Range(m2.parents) # {}

\* the loop over m1_parents and m2_parents; a parents entry of no record
\* gives None and is passed over
Cousins(fam, m1, m2) ==
    \E i \in DOMAIN m1.parents, j \in DOMAIN m2.parents :
        /\ m1.parents[i] \in Ids(fam)
        /\ m2.parents[j] \in Ids(fam)
        /\ SharedParent(IdToMember(fam, m1.parents[i]), IdToMember(fam, m2.parents[j]))

get_relationship(member1_id, member2_id, fam) ==
    IF member1_id \notin Ids(fam) \/ member2_id \notin Ids(fam)
    THEN Label("No relationship found", <<>>)
    ELSE
    LET m1 == IdToMember(fam, member1_id)
        m2 == IdToMember(fam, member2_id)
    IN  IF Contains(m1.parents, member2_id)
        THEN Label("is a parent of", <<m2.first_name, m1.first_name>>)
        ELSE IF Contains(m2.parents, member1_id)
        THEN Label("is a parent of", <<m1.first_name, m2.first_name>>)
        ELSE IF SharedParent(m1, m2)
        THEN Label("are siblings", <<m1.first_name, m2.first_name>>)
        ELSE IF Cousins(fam, m1, m2)
        THEN Label("are cousins", <<m1.first_name, m2.first_name>>)
        ELSE IF Contains(m1.spouse, member2_id)
        THEN Label("are spouses", <<m1.first_name, m2.first_name>>)
        ELSE Label("No direct relationship found", <<>>)

\* The graphs get_relationship is asked about: RelSize records with
\* different first names; parents of up to two ids for the first record and
\* of up to one for the others, an id of no record among them; records 1
\* and 2 may list each other as spouse; siblings all empty or all full
RelIds == 1..RelSize
RelRefs == 1..(RelSize + 1)
RelName(id) ==
    CASE id = 1 -> "Al"
      [] id = 2 -> "cy"
      [] id = 3 -> "x"
      [] OTHER -> "Unknown"
RelParents(id) ==
    {<<>>} \cup {<<a>> : a \in RelRefs}
        \cup (IF id = 1
              THEN {p \in RelRefs \X RelRefs : 1 < p[1] /\ p[1] < p[2]}
              ELSE {})
RelSpouse(id) ==
    IF id = 1 THEN {<<>>, <<2>>} ELSE IF id = 2 THEN {<<>>, <<1>>} ELSE {<<>>}
RelPerson(id, parents, spouse, siblings) ==
    [GraphPerson(id, parents, spouse, siblings) EXCEPT !.first_name = RelName(id)]
RelGraphs ==
    {[k \in RelIds |->
         RelPerson(k, pa[k], sp[k], IF full THEN SortedSeq(RelIds \ {k}) ELSE <<>>)] :
        pa \in {f \in [RelIds -> RelParents(1)] : \A k \in RelIds : f[k] \in RelParents(k)},
        sp \in {f \in [RelIds -> {<<>>, <<1>>, <<2>>}] : \A k \in RelIds : f[k] \in RelSpouse(k)},
        full \in BOOLEAN}

InitRel ==
    /\ store \in RelGraphs
    /\ exists = TRUE
    /\ last = [op |-> "init", outcome |-> "ok", id |-> 0, other |-> 0,
               label |-> Label("", <<>>)]
    /\ issued = {}
    /\ typed = FALSE
    /\ pending = NoPending
    /\ nops = 0

\* relationships(): get_relationship(selected, other, family) on the loaded
\* document, which it leaves as it is
Relationship ==
    \E member1_id, member2_id \in RelRefs :
        /\ nops < MaxQueries
        /\ last' = [op |-> "relationship", outcome |-> "ok",
                    id |-> member1_id, other |-> member2_id,
                    label |-> get_relationship(member1_id, member2_id, store)]
        /\ nops' = nops + 1
        /\ UNCHANGED <<store, exists, issued, typed, pending>>

NextRel == Relationship

SpecRel == InitRel /\ [][NextRel]_vars

----------------------------------------------------------------------------
(* admin_merge_duplicates (GET): the duplicate groups *)

\* key = (first_name.strip().lower(), last_name.strip().lower(), birth_date)
DupKeyNoBirth(m) == <<Lower(Strip(m.first_name)), Lower(Strip(m.last_name)), "">>
DupKey(m) == <<Lower(Strip(m.first_name)), Lower(Strip(m.last_name)), m.birth_date>>

\* the inner loop: the records with the key, none for the empty key
RECURSIVE MatchesOf(_, _)
MatchesOf(fam, key) ==
    IF fam = <<>> THEN <<>>
    ELSE IF DupKey(Head(fam)) = key /\ DupKey(Head(fam)) # <<"", "", "">>
         THEN <<Head(fam)>> \o MatchesOf(Tail(fam), key)
         ELSE MatchesOf(Tail(fam), key)

\* the outer loop, with the ids seen so far and the groups so far
RECURSIVE FindLoop(_, _, _, _)
FindLoop(fam, i, seen, groups) ==
    IF i > Len(fam) THEN groups
    ELSE IF fam[i].id \in seen THEN FindLoop(fam, i + 1, seen, groups)
    ELSE LET matches == MatchesOf(fam, DupKey(fam[i]))
         IN  FindLoop(fam, i + 1, seen \cup Ids(matches),
                      IF Len(matches) > 1 THEN Append(groups, matches) ELSE groups)

find_duplicates(fam) == FindLoop(fam, 1, {}, <<>>)

\* The documents it is asked about: DupSize records whose names differ in
\* case or in a trailing blank or are empty, with or without a birth date
DupIds == 1..DupSize
DupPerson(id, first, last_name, birth) ==
    [GraphPerson(id, <<>>, <<>>, <<>>) EXCEPT
        !.first_name = first, !.last_name = last_name, !.birth_date = birth]
DupGraphs ==
    {[k \in DupIds |-> DupPerson(k, f[k].first_name, f[k].last_name, f[k].birth_date)] :
        f \in [DupIds -> [first_name : {"Al", "al", "Al ", ""},
                          last_name : {"Ng", ""},
                          birth_date : {"1950-01-01", ""}]]}

InitDup ==
    /\ store \in DupGraphs
    /\ exists = TRUE
    /\ last = [op |-> "init", outcome |-> "ok", groups |-> <<>>, loaded |-> <<>>]
    /\ issued = {}
    /\ typed = FALSE
    /\ pending = NoPending
    /\ nops = 0

\* GET /admin/merge-duplicates as admin: the groups rendered
FindDuplicates ==
    /\ nops < MaxQueries
    /\ last' = [op |-> "find_duplicates", outcome |-> "ok",
                groups |-> find_duplicates(store), loaded |-> store]
    /\ nops' = nops + 1
    /\ UNCHANGED <<store, exists, issued, typed, pending>>

NextDup == FindDuplicates

SpecDup == InitDup /\ [][NextDup]_vars

----------------------------------------------------------------------------
(* The merge on documents whose records have a photo and a biography or     *)
(* lack them                                                                *)

PhotoIds == 1..PhotoSize
PhotoPerson(id, photo, bio) ==
    [GraphPerson(id, <<>>, <<>>, <<>>) EXCEPT !.photo = photo, !.bio = bio]
\* the records in ascending or in descending order of id
PhotoOrders == {[k \in PhotoIds |-> k], [k \in PhotoIds |-> PhotoSize + 1 - k]}
PhotoGraphs ==
    {[k \in PhotoIds |-> PhotoPerson(o[k], f[o[k]].photo, f[o[k]].bio)] :
        o \in PhotoOrders,
        f \in [PhotoIds -> [photo : {None, "", "a.jpg", "b.jpg"},
                            bio : {"", "bio a", "bio b"}]]}

InitPhoto ==
    /\ store \in PhotoGraphs
    /\ exists = TRUE
    /\ last = [op |-> "init", outcome |-> "ok", id |-> 0, dups |-> {},
               admin |-> FALSE, confirm |-> FALSE, listed |-> FALSE,
               text |-> NoText,
               minted |-> {}, log |-> <<>>, backup |-> <<>>, loaded |-> <<>>,
               found |-> FALSE]
    /\ issued = {}
    /\ typed = FALSE
    /\ pending = NoPending
    /\ nops = 0

\* POST /admin/merge-duplicates as admin, confirmed
MergePhotos ==
    /\ nops < MaxQueries
    /\ \E primary_id \in PhotoIds, duplicate_ids \in SUBSET PhotoIds :
          Effect("merge",
                 admin_merge_duplicates(exists, store, TRUE, TRUE, primary_id,
                                        duplicate_ids),
                 Inputs(TRUE, TRUE, duplicate_ids, NoText))

NextPhoto == MergePhotos

SpecPhoto == InitPhoto /\ [][NextPhoto]_vars

----------------------------------------------------------------------------
(* Requests served at the same time.  A handler reads family.json into its  *)
(* local family (json.load), computes, and writes the whole document back   *)
(* (json.dump); nothing keeps another worker from reading or writing in     *)
(* between.                                                                 *)

\* the requests of the race: add_member and admin_delete_member
RaceRequests ==
    {[op |-> "create", id |-> 0, admin |-> FALSE, form |-> form, text |-> TextOf(pairs)] :
        form \in Forms, pairs \in Submitted}
    \cup
    {[op |-> "delete", id |-> member_id, admin |-> is_admin,
      form |-> CHOOSE form \in Forms : TRUE, text |-> NoText] :
        member_id \in IdRange, is_admin \in BOOLEAN}

\* the family a worker computes on: what its json.load returned
SnapshotFresh(w) == store
Snapshot(w) == pending[w].loaded

\* with open(family_file, "r") as f: family = json.load(f)
Load(w) ==
    /\ pending[w] = Idle
    /\ nops < MaxRaceOps
    /\ \E q \in RaceRequests :
          pending' = [pending EXCEPT ![w] =
                         [op |-> q.op, req |-> q, loaded |-> store, found |-> exists]]
    /\ nops' = nops + 1
    /\ UNCHANGED <<store, exists, last, issued, typed>>

\* the rest of the handler, up to json.dump(family, f) and the response; a
\* handler that returns early writes nothing
Save(w) ==
    /\ pending[w] # Idle
    /\ LET q == pending[w].req
           r == IF q.op = "create"
                THEN add_member(Snapshot(w), q.form, q.text)
                ELSE admin_delete_member(pending[w].found, Snapshot(w), q.admin, q.id)
       IN  /\ store' = IF r.outcome = "ok" THEN r.doc ELSE store
           /\ exists' = IF r.outcome = "ok" THEN TRUE ELSE exists
           /\ last' = [op |-> q.op, outcome |-> r.outcome, id |-> r.id,
                       admin |-> q.admin, form |-> q.form, text |-> q.text,
                       minted |-> r.minted, log |-> r.log,
                       loaded |-> pending[w].loaded, before |-> store]
           /\ issued' = issued \cup r.minted
           /\ typed' = (typed \/ q.text["siblings"] # <<>>)
    /\ pending' = [pending EXCEPT ![w] = Idle]
    /\ UNCHANGED nops

NextRace ==
    \/ \E w \in Workers : Load(w)
    \/ \E w \in Workers : Save(w)

SpecRace == Init /\ [][NextRace]_vars

----------------------------------------------------------------------------
(* The POST branch of admin_merge_duplicates step by step, one request at a *)
(* time: the checks, the backup copy, then the load, the merge and the save *)

MergeRequests ==
    [admin : BOOLEAN, confirm : BOOLEAN, id : IdRange, dups : SUBSET IdRange]

\* shutil.copy(family_file, backup_file): the files this request has put in
\* the backup location
BackupNone(doc) == <<>>
BackupCopy(doc) == <<doc>>

\* the admin check, the file check and the form checks
MergeChecks(q) ==
    IF Denied(q.admin) THEN "denied"
    ELSE IF ~exists THEN "not_found"
    ELSE IF ~MergeAccepted(q.confirm, q.id, q.dups) THEN "bad_request"
    ELSE "accepted"

\* a document to merge in: add_member while no merge is under way
CreateBeforeMerge ==
    /\ pending = NoPending
    /\ CreateOne

MergeBegin ==
    /\ pending = NoPending
    /\ nops < MaxBackupOps
    /\ \E q \in MergeRequests :
          /\ pending' = IF MergeChecks(q) = "accepted"
                        THEN [pending EXCEPT ![1] = [op |-> "merge", req |-> q]]
                        ELSE pending
          /\ last' = [op |-> "merge", outcome |-> MergeChecks(q), id |-> q.id,
                      dups |-> q.dups, backup |-> <<>>, log |-> <<>>,
                      wrote |-> FALSE, loaded |-> store]
    /\ nops' = nops + 1
    /\ UNCHANGED <<store, exists, issued, typed>>

MergeCopy ==
    /\ pending[1] # Idle
    /\ last.outcome = "accepted"
    /\ last' = [last EXCEPT !.outcome = "copied", !.backup = BackupCopy(store)]
    /\ UNCHANGED <<store, exists, issued, typed, pending, nops>>

\* json.load, "Find members", and, when the primary is found, the merge,
\* json.dump and log_activity
MergeFinish ==
    /\ pending[1] # Idle
    /\ last.outcome = "copied"
    /\ LET q == pending[1].req
           r == admin_merge_duplicates(exists, store, q.admin, q.confirm, q.id, q.dups)
       IN  /\ store' = r.doc
           /\ last' = [last EXCEPT !.outcome = r.outcome, !.log = r.log,
                                    !.wrote = (r.outcome = "ok"), !.loaded = store]
    /\ pending' = NoPending
    /\ UNCHANGED <<exists, issued, typed, nops>>

NextBackup ==
    \/ CreateBeforeMerge
    \/ MergeBegin
    \/ MergeCopy
    \/ MergeFinish

SpecBackup == Init /\ [][NextBackup]_vars

----------------------------------------------------------------------------
(* Properties of the persisted document *)

EdgesOf(m) ==
    Range(m.parents) \cup Range(m.children) \cup Range(m.spouse) \cup Range(m.siblings)

\* the request just handled was op and it went through
Did(op) == last.op = op /\ last.outcome = "ok"

\* C1: in every document reachable from the empty one by create, update,
\* delete, merge and sync requests, no record lists its own id in its
\* parents, children, spouse or siblings.
C1_NoSelfReference ==
    \A k \in DOMAIN store : store[k].id \notin EdgesOf(store[k])

\* two distinct existing records are linked when one lists the other as a
\* sibling or both list a common parents entry
SiblingLinked(fam, a, b) ==
    /\ a # b
    /\ \E k, l \in DOMAIN fam :
          /\ fam[k].id = a
          /\ fam[l].id = b
          /\ \/ a \in Range(fam[l].siblings)
             \/ b \in Range(fam[k].siblings)
             \/ Range(fam[k].parents) \cap Range(fam[l].parents) # {}

RECURSIVE LinkedClosure(_, _)
LinkedClosure(fam, S) ==
    LET T == S \cup {b \in Ids(fam) : \E a \in S : SiblingLinked(fam, a, b)}
    IN  IF T = S THEN S ELSE LinkedClosure(fam, T)

\* C2: after every mutating request the siblings list of every record is
\* exactly its connected component minus itself, the components being those
\* of explicit sibling edges and shared parents entries over existing records.
C2_SiblingClosure ==
    \A k \in DOMAIN store :
        Range(store[k].siblings) = LinkedClosure(store, {store[k].id}) \ {store[k].id}

\* C3: in every reachable document spouse edges are symmetric, and every id
\* in a spouse list is that of another record that exists.
C3_SpouseSymmetry ==
    \A k \in DOMAIN store :
        \A b \in Range(store[k].spouse) :
            /\ b # store[k].id
            /\ \E l \in DOMAIN store :
                  store[l].id = b /\ store[k].id \in Range(store[l].spouse)

\* a merge of two records has gone through and left a spouse edge
C3_Witness ==
    /\ Did("merge")
    /\ Cardinality(last.dups \cap Ids(last.backup[1])) >= 2
    /\ \E k \in DOMAIN store : store[k].spouse # <<>>

NoDangling(fam) == \A k \in DOMAIN fam : EdgesOf(fam[k]) \subseteq Ids(fam)

\* C4: after a delete or a merge has completed, every id in any edge list of
\* the persisted document is the id of a record in it.
C4_NoDanglingAfterDeleteOrMerge ==
    (Did("delete") \/ Did("merge")) => NoDangling(store)

\* C5: after a merge of the duplicate set D into the survivor s, no record
\* with an id of D other than s remains and no remaining record lists one.
C5_MergeReferenceIntegrity ==
    Did("merge") =>
        \A k \in DOMAIN store :
            /\ store[k].id \notin last.dups \ {last.id}
            /\ EdgesOf(store[k]) \cap (last.dups \ {last.id}) = {}

\* a merge went through before which a record outside the duplicate set
\* listed a duplicate other than the survivor
C5_Witness ==
    /\ Did("merge")
    /\ \E k \in DOMAIN last.backup[1] :
          /\ last.backup[1][k].id \notin last.dups
          /\ EdgesOf(last.backup[1][k]) \cap (last.dups \ {last.id})
                \cap Ids(last.backup[1]) # {}

\* C6: no two records of a reachable document have the same id.
C6_IdsUnique ==
    \A k, l \in DOMAIN store : store[k].id = store[l].id => k = l

\* an update that minted a placeholder into a document of three records
C6_Witness ==
    /\ Did("update")
    /\ last.minted # {}
    /\ Len(store) >= 3

\* C7: an id once given to a record is never given to another record by a
\* later request, also after the first record was deleted or merged away.
C7_IdNeverReused ==
    [][\A i \in last'.minted : i \notin issued]_vars

\* C8: for any graph, after sync_spouses_in_family B is in A.spouse exactly
\* when A is in B.spouse, and no spouse list holds the record's own id or an
\* id no record has.
C8_SpouseSyncSymmetric ==
    Did("sync_spouses") =>
        \A k \in DOMAIN store :
            \A b \in Range(store[k].spouse) :
                /\ b # store[k].id
                /\ b \in Ids(store)
                /\ \A l \in DOMAIN store :
                      store[l].id = b => store[k].id \in Range(store[l].spouse)

\* the pass was given a half edge and an id no record has, and left an edge
C8_Witness ==
    /\ Did("sync_spouses")
    /\ \E k, l \in DOMAIN last.loaded :
          /\ k # l
          /\ last.loaded[l].id \in Range(last.loaded[k].spouse)
          /\ last.loaded[k].id \notin Range(last.loaded[l].spouse)
    /\ \E k \in DOMAIN last.loaded :
          ~(Range(last.loaded[k].spouse) \subseteq Ids(last.loaded))
    /\ \E k \in DOMAIN store : store[k].spouse # <<>>

\* C9: for any graph, sync_siblings_in_family run twice in a row leaves
\* every siblings list as the first run left it.
C9_SiblingSyncIdempotent ==
    (Did("sync_siblings") /\ last.id = 2) =>
        /\ Len(store) = Len(last.loaded)
        /\ \A k \in DOMAIN store :
              /\ store[k].id = last.loaded[k].id
              /\ store[k].siblings = last.loaded[k].siblings

\* the pass ran twice in a row on a graph where an explicit sibling edge and
\* a shared parent chain three records together
C9_Witness ==
    /\ Did("sync_siblings")
    /\ last.id = 2
    /\ \E k \in DOMAIN store : Len(store[k].siblings) >= 2
    /\ \E k, l \in DOMAIN store :
          k # l /\ Range(store[k].parents) \cap Range(store[l].parents) # {}
    /\ \E k, l \in DOMAIN store :
          /\ k # l
          /\ Range(store[k].parents) \cap Range(store[l].parents) = {}

MutualSpouses(a, b) ==
    a.id # b.id /\ b.id \in Range(a.spouse) /\ a.id \in Range(b.spouse)

\* C10 as stated: after create_member or update_member, any two records that
\* are spouses of each other have the same set of children.
C10_SpouseChildrenEqual ==
    (Did("create") \/ Did("update")) =>
        \A k, l \in DOMAIN store :
            MutualSpouses(store[k], store[l]) =>
                Range(store[k].children) = Range(store[l].children)

\* C10 as amended: ... any two records that are spouses of each other and of
\* nobody else have the same set of children.
C10_OnlySpousesChildrenEqual ==
    (Did("create") \/ Did("update")) =>
        \A k, l \in DOMAIN store :
            /\ MutualSpouses(store[k], store[l])
            /\ Range(store[k].spouse) = {store[l].id}
            /\ Range(store[l].spouse) = {store[k].id}
            => Range(store[k].children) = Range(store[l].children)

\* a create or update left a couple, spouses of nobody else, with a child
\* that one of the two did not list before
C10_Witness ==
    /\ Did("create") \/ Did("update")
    /\ \E k, l \in DOMAIN store :
          /\ MutualSpouses(store[k], store[l])
          /\ Range(store[k].spouse) = {store[l].id}
          /\ Range(store[l].spouse) = {store[k].id}
          /\ \E j \in DOMAIN last.loaded :
                /\ last.loaded[j].id = store[k].id
                /\ ~(Range(store[k].children) \subseteq Range(last.loaded[j].children))

----------------------------------------------------------------------------
(* Deletion, creation, the read views and the failure paths *)

\* the document without the record P, without P in any list and without the
\* siblings lists: what is left to make two records siblings by parents alone
ParentsOnly(fam, P) ==
    LET f1 == KeepMembers(fam, Ids(fam) \ {P})
    IN  [k \in DOMAIN f1 |-> [StripId(f1[k], P) EXCEPT !.siblings = <<>>]]

\* C11: deleting a record P that is the only shared parent of two children
\* takes P out of both children's parents, and when the two were siblings
\* only through P (no siblings text was ever submitted and no other parents
\* entry links them) neither lists the other as a sibling afterwards.
C11_DeletionCascade ==
    (Did("delete") /\ ~typed) =>
        \A a, b \in DOMAIN last.loaded :
            LET old == last.loaded
                P   == last.id
            IN  ( /\ a # b
                  /\ Range(old[a].parents) \cap Range(old[b].parents) = {P}
                  /\ old[b].id \notin LinkedClosure(ParentsOnly(old, P), {old[a].id}) )
                => \A k, l \in DOMAIN store :
                      (store[k].id = old[a].id /\ store[l].id = old[b].id)
                      => /\ P \notin Range(store[k].parents)
                         /\ P \notin Range(store[l].parents)
                         /\ store[l].id \notin Range(store[k].siblings)
                         /\ store[k].id \notin Range(store[l].siblings)

\* the entries of a request in the order they are resolved, each with its kind
KindOrder == <<"parents", "children", "siblings", "spouse">>
RECURSIVE Tagged(_, _)
Tagged(text, i) ==
    IF i > Len(KindOrder) THEN <<>>
    ELSE [j \in DOMAIN text[KindOrder[i]] |->
             [kind |-> KindOrder[i], e |-> text[KindOrder[i]][j]]]
         \o Tagged(text, i + 1)

\* entry i of a create request is a name that no record has when its turn
\* comes: no record of the loaded document and no placeholder of an earlier
\* entry ("brk" is a name to add_member: only digits are read as an id)
SameName(v, w) ==
    Len(v) = 2 /\ Len(w) = 2 /\ Lower(v[1]) = Lower(w[1]) /\ Lower(v[2]) = Lower(w[2])
Unknown(old, flat, i) ==
    /\ flat[i].e.t # "num"
    /\ flat[i].e.w # <<>>
    /\ \A k \in DOMAIN old : ~NameMatches(old[k], flat[i].e.w)
    /\ \A j \in 1..(i - 1) : flat[j].e.t = "num" \/ ~SameName(flat[j].e.w, flat[i].e.w)
Rank(old, flat, i) == Cardinality({j \in 1..i : Unknown(old, flat, j)})

\* C12: add_member gives the new member the id n+1, n the largest id of the
\* loaded document (0 when empty); the entries that are names of no record
\* get placeholders with the ids n+2, n+3, ... in the order parents,
\* children, siblings, spouse, each listing the new member in the reciprocal
\* field and each listed by the new member under its kind; with one unknown
\* parent on the empty store the result is member 1 with parents <<2>> and
\* placeholder 2 with children <<1>>.
C12_CreateIdsAndPlaceholders ==
    Did("create") =>
        LET old  == last.loaded
            new  == last.id
            flat == Tagged(last.text, 1)
            cnt  == Rank(old, flat, Len(flat))
        IN  /\ new = Max0(Ids(old)) + 1
            /\ last.minted = new .. (new + cnt)
            /\ Ids(store) = Ids(old) \cup last.minted
            /\ Len(store) = Len(old) + 1 + cnt
            /\ \A i \in DOMAIN flat :
                  Unknown(old, flat, i) =>
                      \E k, m \in DOMAIN store :
                          /\ store[k].id = new + Rank(old, flat, i)
                          /\ store[k].first_name = flat[i].e.w[1]
                          /\ store[k].bio = PlaceholderBio
                          /\ new \in Range(store[k][Reciprocal(flat[i].kind)])
                          /\ store[m].id = new
                          /\ store[k].id \in Range(store[m][flat[i].kind])
            /\ (old = <<>> /\ Len(flat) = 1 /\ flat[1].kind = "parents" /\ cnt = 1) =>
                  /\ Len(store) = 2
                  /\ \E k, m \in DOMAIN store :
                        /\ store[m].id = 1 /\ store[m].parents = <<2>>
                        /\ store[k].id = 2 /\ store[k].children = <<1>>
                        /\ store[k].parents = <<>> /\ store[m].children = <<>>

\* a second create whose two entries are both names of no record, on a
\* document that already has records: the placeholders are n+2 and n+3
C12_Witness ==
    /\ Did("create")
    /\ last.loaded # <<>>
    /\ Cardinality(last.minted) = 3
    /\ \E k \in DOMAIN store :
          store[k].id = Max0(Ids(last.loaded)) + 3 /\ store[k].bio = PlaceholderBio

\* the label of the first rule that matches, in the order: B is a parent of
\* A, A is a parent of B, a shared parent, parents that share a parent, B in
\* A's spouse list, none
RuleLabel(fam, a, b) ==
    LET A == CHOOSE m \in Range(fam) : m.id = a
        B == CHOOSE m \in Range(fam) : m.id = b
        par(m) == Range(m.parents)
    IN  IF b \in par(A) THEN Label("is a parent of", <<B.first_name, A.first_name>>)
        ELSE IF a \in par(B) THEN Label("is a parent of", <<A.first_name, B.first_name>>)
        ELSE IF par(A) \cap par(B) # {} THEN Label("are siblings", <<A.first_name, B.first_name>>)
        ELSE IF \E p, q \in Range(fam) :
                    p.id \in par(A) /\ q.id \in par(B) /\ par(p) \cap par(q) # {}
        THEN Label("are cousins", <<A.first_name, B.first_name>>)
        ELSE IF b \in Range(A.spouse) THEN Label("are spouses", <<A.first_name, B.first_name>>)
        ELSE Label("No direct relationship found", <<>>)

\* the document with every siblings list emptied
NoSiblings(fam) == [k \in DOMAIN fam |-> [fam[k] EXCEPT !.siblings = <<>>]]

\* C13: for two existing records get_relationship returns the label of the
\* first matching rule in the fixed order, computed without the siblings
\* lists; two records that share a parent, neither being a parent of the
\* other, are labelled siblings also when they list each other as spouses.
C13_RelationshipPrecedence ==
    (last.op = "relationship" /\ last.id \in Ids(store) /\ last.other \in Ids(store)) =>
        /\ last.label = RuleLabel(NoSiblings(store), last.id, last.other)
        /\ \A k, l \in DOMAIN store :
              ( /\ store[k].id = last.id
                /\ store[l].id = last.other
                /\ Range(store[k].parents) \cap Range(store[l].parents) # {}
                /\ last.other \notin Range(store[k].parents)
                /\ last.id \notin Range(store[l].parents) )
              => last.label.words = "are siblings"

\* asked about two records that share a parent, list each other as spouses
\* and have siblings lists
C13_Witness ==
    /\ last.op = "relationship"
    /\ last.label.words = "are siblings"
    /\ \E k, l \in DOMAIN store :
          /\ store[k].id = last.id
          /\ store[l].id = last.other
          /\ k # l
          /\ last.other \in Range(store[k].spouse)
          /\ last.id \in Range(store[l].spouse)
          /\ store[k].siblings # <<>>

\* the key as the specification words it: names lower-cased, nothing trimmed
RawKey(m) == <<Lower(m.first_name), Lower(m.last_name), m.birth_date>>
\* the key with the blanks around the names trimmed before lower-casing
TrimmedKey(m) == <<Lower(Strip(m.first_name)), Lower(Strip(m.last_name)), m.birth_date>>

\* the groups are groups of at least two records of the document that share
\* their key; a record is in exactly one group when its key is not the empty
\* one and another record has it, and in none otherwise; the document is as
\* it was loaded
GroupsBy(G, fam, loaded, Key(_)) ==
    /\ \A g \in DOMAIN G :
          /\ Len(G[g]) >= 2
          /\ Cardinality(Range(G[g])) = Len(G[g])
          /\ Range(G[g]) \subseteq Range(fam)
          /\ \A m, n \in Range(G[g]) : Key(m) = Key(n)
    /\ \A k \in DOMAIN fam :
          Cardinality({g \in DOMAIN G : fam[k] \in Range(G[g])}) =
              IF /\ Key(fam[k]) # <<"", "", "">>
                 /\ \E l \in DOMAIN fam : l # k /\ Key(fam[l]) = Key(fam[k])
              THEN 1 ELSE 0
    /\ fam = loaded

\* C14 as stated: the duplicate groups are the classes of the key
\* (lower(first_name), lower(last_name), birth_date) with two or more
\* records, the empty key apart, and the document is not modified.
C14_GroupsByRawKey ==
    last.op = "find_duplicates" => GroupsBy(last.groups, store, last.loaded, RawKey)

\* C14 amended: the same with the names trimmed of surrounding blanks
\* before they are lower-cased.
C14_GroupsByTrimmedKey ==
    last.op = "find_duplicates" => GroupsBy(last.groups, store, last.loaded, TrimmedKey)

\* asked about a document with two records of one key, a third with the
\* same names and no birth date, and a record of the empty key
C14_Witness ==
    /\ last.op = "find_duplicates"
    /\ Len(last.groups) = 1
    /\ Len(last.groups[1]) = 2
    /\ \E k, l \in DOMAIN store :
          /\ TrimmedKey(store[k]) = <<"al", "ng", "">>
          /\ TrimmedKey(store[l]) = <<"", "", "">>
    /\ \E m \in Range(last.groups[1]) : TrimmedKey(m) = <<"al", "ng", "1950-01-01">>

NoRepeats(xs) == Cardinality(Range(xs)) = Len(xs)

\* C15: after any mutating request no parents, children, spouse or siblings
\* list holds the same id more than once, whatever text was submitted.
C15_ListsAreSets ==
    \A k \in DOMAIN store :
        /\ NoRepeats(store[k].parents)
        /\ NoRepeats(store[k].children)
        /\ NoRepeats(store[k].spouse)
        /\ NoRepeats(store[k].siblings)

WroteNothing ==
    /\ store = last.loaded
    /\ exists = last.found
    /\ last.backup = <<>>
    /\ last.log = <<>>
    /\ last.minted = {}

\* C17: a mutating request either goes through and persists the rewritten
\* document or fails having written nothing at all: every check that can
\* make it fail comes before the first write, the backup copy of a merge
\* included.
C17_ValidateBeforeWrite ==
    (last.op \in {"create", "update", "delete", "merge", "sync"} /\ last.outcome # "ok")
        => WroteNothing

C19_NonAdminDenied ==
    (last.op \in {"delete", "merge", "sync"} /\ ~last.admin) =>
        (last.outcome = "denied" /\ WroteNothing)

\* a caller who is not admin asked to delete a record that exists
C19_Witness ==
    /\ last.op = "delete"
    /\ ~last.admin
    /\ last.outcome = "denied"
    /\ last.id \in Ids(store)

\* C20: a delete of an id no record has removes nothing, changes no list
\* and logs nothing; an update of an id no record has is answered not found
\* and writes neither the document nor a placeholder.
C20_AbsentTargetNoOp ==
    /\ (last.op = "delete" /\ last.id \notin Ids(last.loaded)) => WroteNothing
    /\ (last.op = "update" /\ last.id \notin Ids(last.loaded)) =>
          (last.outcome = "not_found" /\ WroteNothing)

\* an update named an id no record has while a record lists that id, its
\* text naming a person no record has
C20_Witness ==
    /\ last.op = "update"
    /\ last.id \notin Ids(last.loaded)
    /\ \E k \in DOMAIN store : last.id \in EdgesOf(store[k])
    /\ \E kind \in Kinds : \E i \in DOMAIN last.text[kind] :
          last.text[kind][i].t = "name"

\* C21: for any graph, after sync_siblings_in_family the siblings list of
\* every record is the ascending list of the other records of its connected
\* component, two distinct records being adjacent when one lists the other in
\* siblings or both list a common parents entry, whether or not a record has
\* that id; no siblings list holds the record's own id or an id no record has.
C21_SiblingsAreComponents ==
    Did("sync_siblings") =>
        /\ Len(store) = Len(last.loaded)
        /\ \A k \in DOMAIN store :
              /\ store[k].id = last.loaded[k].id
              /\ store[k].siblings =
                    SortedSeq(LinkedClosure(last.loaded, {store[k].id}) \ {store[k].id})
              /\ store[k].id \notin Range(store[k].siblings)
              /\ Range(store[k].siblings) \subseteq Ids(store)

\* the pass was given a record that lists itself, a record that lists an id
\* no record has, and two records that share a parents entry no record has,
\* and left a siblings list in every record
C21_Witness ==
    /\ Did("sync_siblings")
    /\ \E k \in DOMAIN last.loaded :
          last.loaded[k].id \in Range(last.loaded[k].siblings)
    /\ \E k \in DOMAIN last.loaded :
          ~(Range(last.loaded[k].siblings) \subseteq Ids(last.loaded))
    /\ \E k, l \in DOMAIN last.loaded :
          /\ k # l
          /\ (Range(last.loaded[k].parents) \cap Range(last.loaded[l].parents))
                \ Ids(last.loaded) # {}
          /\ last.loaded[l].id \notin Range(last.loaded[k].siblings)
          /\ last.loaded[k].id \notin Range(last.loaded[l].siblings)
    /\ \A k \in DOMAIN store : store[k].siblings # <<>>

\* C22: after an update of S, every id r of the list resolved for a kind
\* that is the id of a record of the persisted document other than S has the
\* reciprocal edge to S there: parents -> S in r.children, children -> S in
\* r.parents, spouse -> S in r.spouse, siblings -> S in r.siblings.
C22_UpdateReciprocalEdges ==
    Did("update") =>
        LET ra == ResolveAll(last.loaded, last.id, last.text)
        IN  \A kind \in Kinds :
                \A r \in Range(ra[kind]) :
                    (r \in Ids(store) /\ r # last.id) =>
                        \E k \in DOMAIN store :
                            /\ store[k].id = r
                            /\ last.id \in Range(store[k][Reciprocal(kind)])

\* the record with the id in a document whose ids are unique
Rec(fam, id) == fam[CHOOSE k \in DOMAIN fam : fam[k].id = id]

\* the entries of one edge list over the survivor and the duplicates that
\* are records of the document
Pooled(fam, ids, kind) ==
    UNION {Range(fam[k][kind]) : k \in {l \in DOMAIN fam : fam[l].id \in ids}}

\* C23: after a merge into the survivor s, each of the four edge lists of s,
\* as a set, is the union of that list over s and the duplicates that were
\* records, restricted to the ids of the records that remain, s apart.
C23_SurvivorListsAreUnion ==
    Did("merge") =>
        \A kind \in Kinds :
            Range(Rec(store, last.id)[kind]) =
                (Pooled(last.loaded, last.dups \cup {last.id}, kind) \cap Ids(store))
                    \ {last.id}

\* a merge left the survivor with a spouse it took from a duplicate, without
\* the duplicate it had listed and without its own id that the duplicate
\* had listed
C23_Witness ==
    /\ Did("merge")
    /\ Range(Rec(store, last.id).spouse) \ Range(Rec(last.loaded, last.id).spouse) # {}
    /\ Range(Rec(last.loaded, last.id).spouse) \cap (last.dups \ {last.id}) # {}
    /\ last.id \in Pooled(last.loaded, last.dups, "spouse")

\* the fields of a record that are not edge lists
NonEdge(m) ==
    <<m.id, m.first_name, m.last_name, m.birth_date, m.gender, m.photo, m.bio>>

\* C24: a merge removes exactly the records whose id is in the duplicate set
\* and is not the survivor's; every record outside the duplicate set keeps
\* its fields that are not edge lists, and each of its edge lists, as a set,
\* is its old list with every duplicate id replaced by the survivor's, no id
\* occurring twice.
C24_MergeFrame ==
    Did("merge") =>
        /\ Ids(store) = Ids(last.loaded) \ (last.dups \ {last.id})
        /\ Len(store) = Cardinality(Ids(store))
        /\ \A k \in DOMAIN last.loaded :
              last.loaded[k].id \notin last.dups =>
                  LET b == last.loaded[k]
                      a == Rec(store, b.id)
                  IN  /\ NonEdge(a) = NonEdge(b)
                      /\ \A kind \in Kinds :
                            /\ Range(a[kind]) =
                                  {IF x \in last.dups THEN last.id ELSE x :
                                      x \in Range(b[kind])}
                            /\ NoRepeats(a[kind])

\* a merge removed a record, and a record outside the duplicate set that had
\* listed the survivor and the removed record in one list remains
C24_Witness ==
    /\ Did("merge")
    /\ Len(store) < Len(last.loaded)
    /\ \E k \in DOMAIN last.loaded : \E kind \in Kinds :
          /\ last.loaded[k].id \notin last.dups
          /\ last.id \in Range(last.loaded[k][kind])
          /\ Range(last.loaded[k][kind]) \cap (last.dups \ {last.id}) # {}

\* C25: the step of a merge that writes the document is taken when this
\* request has already written a backup copy, and the copy is the document
\* as it is right before that step; the step leaves the copy as it is.
C25_BackupBeforeMergeWrite ==
    [][(last'.op = "merge" /\ last'.wrote) =>
          /\ last.op = "merge"
          /\ last.backup = <<store>>
          /\ last'.backup = last.backup]_vars

\* a merge has written a document of fewer records than the backup copy holds
C25_Witness ==
    /\ last.op = "merge"
    /\ last.wrote
    /\ last.backup # <<>>
    /\ Len(store) < Len(last.backup[1])
    /\ last.log = <<"MERGE_DUPLICATES">>

\* a photo or a biography a record lacks
Lacks(v) == v = None \/ v = ""

\* the first record of the document, in its order, that is a duplicate other
\* than the survivor and has the field, 0 when there is none
FirstWith(fam, ids, field) ==
    Max0({k \in DOMAIN fam :
            /\ fam[k].id \in ids
            /\ ~Lacks(fam[k][field])
            /\ \A l \in 1..(k - 1) : ~(fam[l].id \in ids /\ ~Lacks(fam[l][field]))})

\* C26: in a merge a survivor that has a photo (a biography) keeps it; a
\* survivor that lacks it ends with that of the first duplicate, in the
\* order of the document, that has one.
C26_FirstPhotoAndBioWin ==
    Did("merge") =>
        \A field \in {"photo", "bio"} :
            LET b == Rec(last.loaded, last.id)
                a == Rec(store, last.id)
                f == FirstWith(last.loaded, last.dups \ {last.id}, field)
            IN  /\ ~Lacks(b[field]) => a[field] = b[field]
                /\ (Lacks(b[field]) /\ f # 0) => a[field] = last.loaded[f][field]

\* a merge into a survivor without photo and biography of two duplicates
\* that have different ones, and the survivor has those of the duplicate
\* that comes first in the document
C26_Witness ==
    /\ Did("merge")
    /\ Cardinality(last.dups) = 3
    /\ Lacks(Rec(last.loaded, last.id).photo)
    /\ Lacks(Rec(last.loaded, last.id).bio)
    /\ \E k, l \in DOMAIN last.loaded :
          /\ k < l
          /\ last.loaded[k].id # last.id
          /\ last.loaded[l].id # last.id
          /\ last.loaded[k].photo = "b.jpg"
          /\ last.loaded[l].photo = "a.jpg"
          /\ last.loaded[k].bio = "bio b"
          /\ last.loaded[l].bio = "bio a"
          /\ Rec(store, last.id).photo = "b.jpg"
          /\ Rec(store, last.id).bio = "bio b"

\* the document with one edge list of every record blanked
Without(fam, kind) == [k \in DOMAIN fam |-> [fam[k] EXCEPT ![kind] = <<>>]]

\* C27: sync_siblings_in_family changes no field but siblings,
\* sync_spouses_in_family no field but spouse, the propagation of children
\* to spouses no field but children; none of them adds or removes a record
\* or changes a name, date, gender, bio or photo.
C27_PassesChangeOneList ==
    /\ Did("sync_siblings") => Without(store, "siblings") = Without(last.loaded, "siblings")
    /\ Did("sync_spouses") => Without(store, "spouse") = Without(last.loaded, "spouse")
    /\ Did("propagate") => Without(store, "children") = Without(last.loaded, "children")

\* the propagation has given a record a child of its spouse, after another
\* pass had changed the graph
C27_Witness ==
    /\ Did("propagate")
    /\ nops = 2
    /\ \E k \in DOMAIN store :
          /\ store[k].children # last.loaded[k].children
          /\ store[k].spouse # <<>>

\* a list without the occurrences of an id, the rest in its order
Dropped(xs, t) == SelectSeq(xs, LAMBDA x : x # t)

\* C28: a delete of the id t of a record removes that record and no other;
\* every remaining record keeps its fields that are not edge lists, and its
\* parents, children and spouse lists are its old lists without the
\* occurrences of t, nothing added, removed or reordered.
C28_DeleteFrame ==
    Did("delete") =>
        LET kept == SelectSeq(last.loaded, LAMBDA m : m.id # last.id)
        IN  /\ last.id \in Ids(last.loaded)
            /\ Len(store) = Len(kept)
            /\ Len(kept) = Len(last.loaded) - 1
            /\ \A k \in DOMAIN kept :
                  /\ NonEdge(store[k]) = NonEdge(kept[k])
                  /\ \A kind \in {"parents", "children", "spouse"} :
                        store[k][kind] = Dropped(kept[k][kind], last.id)

\* a delete of a record that a remaining record had listed, with another
\* id, among its parents, children or spouses
C28_Witness ==
    /\ Did("delete")
    /\ \E k \in DOMAIN last.loaded : \E kind \in {"parents", "children", "spouse"} :
          /\ last.loaded[k].id # last.id
          /\ last.id \in Range(last.loaded[k][kind])
          /\ Len(last.loaded[k][kind]) >= 2

\* C29: when a record B other than A lists A in its spouse list before an
\* update of A, then after the update A lists B and B lists A, whatever
\* spouse text was submitted for A.
C29_UpdateKeepsRecordedSpouse ==
    Did("update") =>
        \A k \in DOMAIN last.loaded :
            LET B == last.loaded[k].id
            IN  (B # last.id /\ last.id \in Range(last.loaded[k].spouse)) =>
                    /\ B \in Range(Rec(store, last.id).spouse)
                    /\ last.id \in Range(Rec(store, B).spouse)

\* an update of A with an empty spouse text while A and another record
\* listed each other as spouses, and they still do
C29_Witness ==
    /\ Did("update")
    /\ last.text["spouse"] = <<>>
    /\ \E k \in DOMAIN last.loaded :
          /\ last.loaded[k].id # last.id
          /\ last.id \in Range(last.loaded[k].spouse)
          /\ last.loaded[k].id \in Range(Rec(last.loaded, last.id).spouse)
          /\ last.loaded[k].id \in Range(Rec(store, last.id).spouse)

\* every sibling edge between two distinct records of the document before
\* is an edge in both directions in the document after
SiblingEdgesKept(before, after) ==
    \A k, l \in DOMAIN before :
        (before[k].id # before[l].id
            /\ before[k].id \in Ids(after) /\ before[l].id \in Ids(after)
            /\ before[l].id \in Range(before[k].siblings)) =>
                /\ before[l].id \in Range(Rec(after, before[k].id).siblings)
                /\ before[k].id \in Range(Rec(after, before[l].id).siblings)

\* C30: sync_siblings_in_family removes no sibling edge between two distinct
\* records: when b is in a.siblings before, afterwards b is in a.siblings
\* and a in b.siblings; so the sibling edges of the records that remain are
\* still there after a delete, whichever record was deleted.
C30_SiblingSyncKeepsEdges ==
    /\ Did("sync_siblings") => SiblingEdgesKept(last.loaded, store)
    /\ Did("delete") => SiblingEdgesKept(last.loaded, store)

\* the pass was given a record that lists another as a sibling, the other
\* not listing it and no parents entry shared, and both list each other now
C30_Witness ==
    /\ Did("sync_siblings")
    /\ \E k, l \in DOMAIN last.loaded :
          /\ k # l
          /\ last.loaded[l].id \in Range(last.loaded[k].siblings)
          /\ last.loaded[k].id \notin Range(last.loaded[l].siblings)
          /\ Range(last.loaded[k].parents) \cap Range(last.loaded[l].parents) = {}
          /\ store[l].id \in Range(store[k].siblings)
          /\ store[k].id \in Range(store[l].siblings)

====
